---------------------------- MODULE Spec2Model ----------------------------
(***************************************************************************)
(* Model of bk_rom_compressor (MittenzHugg/bk_rom_compressor), the image   *)
(* builder under src/src/comp: the overlay checksum bk_crc, the boot-chip  *)
(* identification and boot CRC of cic.rs, the patch closure replace_symbol *)
(* and the straight-line pipeline of main; and of the decompressor under   *)
(* src/src/decomp, the steps of its main up to the reconstruction.         *)
(*                                                                         *)
(* A u32 is the pair <<hi, lo>> of its 16-bit halves (TLC integers are     *)
(* 32-bit signed, so a u32 does not fit one integer).  A byte is 0..255.   *)
(* A call that can panic returns [tag |-> "ok", val |-> v] or Panic.       *)
(***************************************************************************)
EXTENDS Integers, Sequences, FiniteSets, TLC

VARIABLES
    \* the inputs
    overflow_checks,   \* build profile: TRUE = overflow checks on (cargo dev), FALSE = off (release)
    symbol_out,        \* config.symbol_out
    symbols,           \* the ELF symbols: name -> value, for the names that are present
    uncompressed_rom,  \* the bytes of the uncompressed image
    \* the locals of main
    bk_boot_info, bk_boot_bytes, overlay_names, overlay_offsets,
    uncomp_code_bytes, uncomp_data_bytes, code_crcs,
    sm_data_crc_complete, core2_data_crc, core1_data_crc, core1_code_crc,
    rzip_bytes, i_offset, crc_rom_start, rom_crc_bytes,
    \* the outputs
    out_file,          \* the bytes of the file at config.out_path
    out_pos,           \* the cursor of out_file
    symbol_file,       \* the lines written in symbol mode, <<name, value>> each
    stdout,            \* the symbol names of the warnings printed
    \* history, not part of the program
    patch_log,         \* one record per replace_symbol call of main
    write_log,         \* one <<offset, length>> per write_all on out_file
    \* control
    pc,                \* main: the statement about to run ("idle" while main is not running)
    call,              \* unit specifications: the call being made, [fn |-> ..., ...]
    ret,               \* unit specifications: its outcome, NotReturned until the call is made
    \* the decompressor (decomp/main.rs)
    compressed_rom,    \* the file read: [signature, len, content], content naming the game
                       \* version whose image the bytes are, in the byte order of the file
    game_id,           \* the version get_hash found
    file_offsets,      \* the table of the version
    uncompressed_overlays, \* what the windows taken so far were unzipped to
    decomp_pc          \* the statement of the decompressor's main about to run

(***************************************************************************)
(* 32-bit words                                                            *)
(***************************************************************************)
M16 == 2^16

W(hi, lo) == <<hi, lo>>
Hi(w) == w[1]
Lo(w) == w[2]
U32 == (0 .. M16 - 1) \X (0 .. M16 - 1)
ZERO32 == W(0, 0)
ONES32 == W(\hFFFF, \hFFFF)

\* `byte as u32`
as_u32(byte) == W(0, byte)

RECURSIVE XorN(_, _, _)
XorN(a, b, n) ==
    IF n = 0 THEN 0
    ELSE ((a + b) % 2) + 2 * XorN(a \div 2, b \div 2, n - 1)

RECURSIVE OrN(_, _, _)
OrN(a, b, n) ==
    IF n = 0 THEN 0
    ELSE (IF (a % 2) + (b % 2) > 0 THEN 1 ELSE 0) + 2 * OrN(a \div 2, b \div 2, n - 1)

\* ^ and | of 4-bit numbers, tabulated once; of bytes and of 16-bit numbers
Xor4 == [a \in 0 .. 15 |-> [b \in 0 .. 15 |-> XorN(a, b, 4)]]
Or4 == [a \in 0 .. 15 |-> [b \in 0 .. 15 |-> OrN(a, b, 4)]]
Xor8(a, b) == Xor4[a % 16][b % 16] + 16 * Xor4[a \div 16][b \div 16]
Or8(a, b) == Or4[a % 16][b % 16] + 16 * Or4[a \div 16][b \div 16]
Xor16(a, b) == Xor8(a % 256, b % 256) + 256 * Xor8(a \div 256, b \div 256)
Or16(a, b) == Or8(a % 256, b % 256) + 256 * Or8(a \div 256, b \div 256)

\* ^ and | of u32
BitXor(x, y) == W(Xor16(Hi(x), Hi(y)), Xor16(Lo(x), Lo(y)))
BitOr(x, y) == W(Or16(Hi(x), Hi(y)), Or16(Lo(x), Lo(y)))
\* ! of u32
BitNot(x) == W(\hFFFF - Hi(x), \hFFFF - Lo(x))

\* x < y and x > y of u32
Less(x, y) == Hi(x) < Hi(y) \/ (Hi(x) = Hi(y) /\ Lo(x) < Lo(y))
Greater(x, y) == Less(y, x)

\* u32::wrapping_add, and whether the exact sum leaves the u32 range
AddOverflows(x, y) == Hi(x) + Hi(y) + ((Lo(x) + Lo(y)) \div M16) >= M16
wrapping_add(x, y) ==
    W((Hi(x) + Hi(y) + ((Lo(x) + Lo(y)) \div M16)) % M16, (Lo(x) + Lo(y)) % M16)

\* product of two 16-bit numbers as <<high 16 bits, low 16 bits>>
Mul16(a, b) ==
    LET a1 == a \div 256  a0 == a % 256
        b1 == b \div 256  b0 == b % 256
        mid == a1 * b0 + a0 * b1
        t == (mid % 256) * 256 + a0 * b0
    IN W(a1 * b1 + (mid \div 256) + (t \div M16), t % M16)

\* u32::wrapping_mul, and whether the exact product leaves the u32 range
MulOverflows(x, y) ==
    \/ Hi(x) # 0 /\ Hi(y) # 0
    \/ Hi(Mul16(Hi(x), Lo(y))) # 0
    \/ Hi(Mul16(Lo(x), Hi(y))) # 0
    \/ Hi(Mul16(Lo(x), Lo(y))) + Lo(Mul16(Hi(x), Lo(y))) + Lo(Mul16(Lo(x), Hi(y))) >= M16
wrapping_mul(x, y) ==
    W((Hi(Mul16(Lo(x), Lo(y))) + Lo(Mul16(Hi(x), Lo(y))) + Lo(Mul16(Lo(x), Hi(y)))) % M16,
      Lo(Mul16(Lo(x), Lo(y))))

\* x << n and x >> n of u32 for 0 <= n < 32 (bits shifted out are lost)
Shl(x, n) ==
    IF n >= 16 THEN W((Lo(x) * 2^(n - 16)) % M16, 0)
    ELSE W((Hi(x) * 2^n + ((Lo(x) * 2^n) \div M16)) % M16, (Lo(x) * 2^n) % M16)
Shr(x, n) ==
    IF n >= 16 THEN W(0, Hi(x) \div 2^(n - 16))
    ELSE W(Hi(x) \div 2^n, (Lo(x) \div 2^n) + (Hi(x) % 2^n) * 2^(16 - n))

\* u32::to_be_bytes and u32::from_be_bytes
to_be_bytes(x) == <<Hi(x) \div 256, Hi(x) % 256, Lo(x) \div 256, Lo(x) % 256>>
from_be_bytes(b) == W(b[1] * 256 + b[2], b[3] * 256 + b[4])

(***************************************************************************)
(* Outcomes                                                                *)
(***************************************************************************)
Ok(v) == [tag |-> "ok", val |-> v]
Panic == [tag |-> "panic", val |-> <<>>]
NotReturned == [tag |-> "pending", val |-> <<>>]
IsOk(r) == r.tag = "ok"

\* the operators + and * on u32: they panic on overflow when the build has
\* overflow checks, and wrap when it has not
Add(checks, x, y) == IF checks /\ AddOverflows(x, y) THEN Panic ELSE Ok(wrapping_add(x, y))
Mul(checks, x, y) == IF checks /\ MulOverflows(x, y) THEN Panic ELSE Ok(wrapping_mul(x, y))


(***************************************************************************)
(* Folds.  TLC passes arguments unevaluated, so a fold written as a plain  *)
(* recursion builds a chain of suspended steps as long as the input; the   *)
(* guard "left = left" evaluates the left half before the right half runs. *)
(* FoldLeft(Op, acc, s, lo, hi) is s[lo..hi].iter().fold(acc, Op).         *)
(***************************************************************************)
RECURSIVE FoldLeft(_, _, _, _, _)
FoldLeft(Op(_, _), acc, s, lo, hi) ==
    IF lo > hi THEN acc
    ELSE IF lo = hi THEN Op(acc, s[lo])
    ELSE LET mid == (lo + hi) \div 2
             left == FoldLeft(Op, acc, s, lo, mid)
         IN IF left = left THEN FoldLeft(Op, left, s, mid + 1, hi) ELSE left

(***************************************************************************)
(* bk_crc (main.rs 120-127)                                                *)
(***************************************************************************)
\* a & 0x17: bits 0, 1, 2 and 4 of a
AndMask17(a) == (Lo(a) % 8) + 16 * ((Lo(a) \div 16) % 2)

\* the shift amount the closure uses, given the sum before and after the add
bk_crc_shift(a_old, a_new) == AndMask17(a_new)

\* the closure of the fold: crc is Ok(<<a, b>>), or Panic once an add has panicked
bk_crc_step(checks, crc, byte) ==
    IF ~IsOk(crc) THEN crc
    ELSE LET a == Add(checks, crc.val[1], as_u32(byte))
         IN IF ~IsOk(a) THEN Panic
            ELSE LET b == BitXor(crc.val[2],
                                 Shl(as_u32(byte), bk_crc_shift(crc.val[1], a.val)))
                 IN Ok(<<a.val, b>>)

\* bytes.iter().fold(crc, closure)
bk_crc_fold(checks, crc, bytes) ==
    LET Step(c, byte) == bk_crc_step(checks, c, byte)
    IN FoldLeft(Step, crc, bytes, 1, Len(bytes))

bk_crc(checks, bytes) == bk_crc_fold(checks, Ok(<<ZERO32, ONES32>>), bytes)

(***************************************************************************)
(* Spans too long to enumerate.  A span of n blocks of 64 bytes 0xFF       *)
(* followed by `bytes`: over 64 equal bytes v the sum visits each residue  *)
(* modulo 32 twice, so the 64 shifted terms cancel in pairs and the block  *)
(* leaves (a + 64*v, b).  FFBlockLemma has TLC fold one block byte by byte *)
(* from every residue.  n is a u32; the sum after the blocks is n * 16320. *)
(***************************************************************************)
FF_BLOCK == [i \in 1 .. 64 |-> 255]
FF_BLOCK_SUM == W(0, 16320)

bk_crc_after_blocks(checks, n) ==
    IF MulOverflows(n, FF_BLOCK_SUM) THEN (IF checks THEN Panic ELSE Ok(<<wrapping_mul(n, FF_BLOCK_SUM), ONES32>>))
    ELSE Ok(<<wrapping_mul(n, FF_BLOCK_SUM), ONES32>>)

bk_crc_span(checks, n, bytes) == bk_crc_fold(checks, bk_crc_after_blocks(checks, n), bytes)

FFBlockLemma ==
    \A r \in 0 .. 31 : \A b \in {ZERO32, ONES32, W(4660, 22136)} :
        bk_crc_fold(FALSE, Ok(<<W(7, r), b>>), FF_BLOCK)
            = Ok(<<wrapping_add(W(7, r), FF_BLOCK_SUM), b>>)

(***************************************************************************)
(* cic.rs                                                                  *)
(***************************************************************************)
HEADER_SIZE == 64                      \* 0x40
CRC_START == 4096                      \* 0x1000, the start of the CRC section
BC_SIZE == CRC_START - HEADER_SIZE     \* 0x1000 - HEADER_SIZE
POLYNOMIAL == W(\hEDB8, \h8320)
\* the length of the CRC section, 0x100000 in the program.  The Cic6105 read
\* at (4*i + 0x710) & 0xff needs a section of at least 0x100 bytes.
CrcSectionLen == 256

\* Rust's data[from .. to] with 0-based offsets: Panic when the range is not
\* inside the data
Slice(data, from, to) ==
    IF from <= to /\ to <= Len(data) THEN Ok(SubSeq(data, from + 1, to)) ELSE Panic

\* crc_generate_table: the inner loop over the 8 bits of one entry
RECURSIVE crc_table_entry(_, _)
crc_table_entry(crc, bit) ==
    IF bit = 0 THEN crc
    ELSE crc_table_entry(IF Lo(crc) % 2 # 0 THEN BitXor(Shr(crc, 1), POLYNOMIAL)
                                             ELSE Shr(crc, 1),
                         bit - 1)

CRC_TABLE == [i \in 0 .. 255 |-> crc_table_entry(W(0, i), 8)]

\* one step of crc32: crc = (crc >> 8) ^ CRC_TABLE[((crc as u8) ^ byte) as usize]
crc32_step(crc, byte) ==
    BitXor(Shr(crc, 8), CRC_TABLE[Xor8(Lo(crc) % 256, byte)])

crc32(data) == BitNot(FoldLeft(crc32_step, ONES32, data, 1, Len(data)))

CIC_6101_CRC == W(\h6170, \hA4A1)
CIC_6102_CRC == W(\h90BB, \h6CB5)
CIC_6103_CRC == W(\h0B05, \h0EE0)
CIC_6105_CRC == W(\h98BC, \h2C86)
CIC_6106_CRC == W(\hACC8, \h580A)

\* the window the CRC-32 would be taken of if it were the checksummed section
identify_window_crc_section(rom) == Slice(rom, CRC_START, CRC_START + CrcSectionLen)
\* the window identify takes the CRC-32 of
identify_window(rom) == Slice(rom, HEADER_SIZE, HEADER_SIZE + BC_SIZE)

\* identify: Ok("Cic61xx"), Ok("None"), or Panic when rom is too short
identify_match(c) ==
    CASE c = CIC_6101_CRC -> "Cic6101"
      [] c = CIC_6102_CRC -> "Cic6102"
      [] c = CIC_6103_CRC -> "Cic6103"
      [] c = CIC_6105_CRC -> "Cic6105"
      [] c = CIC_6106_CRC -> "Cic6106"
      [] OTHER -> "None"
identify_in(window) == IF ~IsOk(window) THEN Panic ELSE Ok(identify_match(crc32(window.val)))
identify(rom) == identify_in(identify_window(rom))

seed(bootcode) ==
    CASE bootcode \in {"Cic6101", "Cic6102"} -> W(\hF8CA, \h4DDC)
      [] bootcode = "Cic6103" -> W(\hA388, \h6759)
      [] bootcode = "Cic6105" -> W(\hDF26, \hF436)
      [] bootcode = "Cic6106" -> W(\h1FEA, \h617A)

\* u32::checked_shl / checked_shr followed by unwrap_or(0)
checked_shl_or_0(d, n) == IF n < 32 THEN Shl(d, n) ELSE ZERO32
checked_shr_or_0(d, n) == IF n < 32 THEN Shr(d, n) ELSE ZERO32

\* d & 0x1F
AndMask1F(d) == Lo(d) % 32

\* the i-th big-endian word of the section (i from 0), chunks_exact(4)
section_word(section, i) == from_be_bytes(SubSeq(section, 4 * i + 1, 4 * i + 4))

\* (4*i + 0x710) & 0xff
cic6105_offset(i) == (4 * i + 1808) % 256

\* the body of the loop over the words: t is Ok(<<t1, t2, t3, t4, t5, t6>>), or
\* Panic once the Cic6105 read has left the section
calculate_crc_step(bootcode, section, t, i) ==
    IF ~IsOk(t) THEN t
    ELSE LET d == section_word(section, i)
             t1 == t.val[1]  t2 == t.val[2]  t3 == t.val[3]
             t4 == t.val[4]  t5 == t.val[5]  t6 == t.val[6]
             n4 == wrapping_add(t4, IF Less(wrapping_add(t6, d), t6) THEN W(0, 1) ELSE ZERO32)
             n6 == wrapping_add(t6, d)
             n3 == BitXor(t3, d)
             r == BitOr(checked_shl_or_0(d, AndMask1F(d)),
                        checked_shr_or_0(d, 32 - AndMask1F(d)))
             n5 == wrapping_add(t5, r)
             n2 == BitXor(t2, IF Greater(t2, d) THEN r ELSE BitXor(n6, d))
             x == IF bootcode = "Cic6105"
                  THEN LET w == Slice(section, cic6105_offset(i), cic6105_offset(i) + 4)
                       IN IF IsOk(w) THEN Ok(from_be_bytes(w.val)) ELSE Panic
                  ELSE Ok(n5)
         IN IF ~IsOk(x) THEN Panic
            ELSE Ok(<<wrapping_add(t1, BitXor(d, x.val)), n2, n3, n4, n5, n6>>)

\* the final combination (cic.rs 87-91): + and * are the checked operators
calculate_crc_combine(checks, bootcode, t) ==
    LET t1 == t[1]  t2 == t[2]  t3 == t[3]  t4 == t[4]  t5 == t[5]  t6 == t[6]
    IN CASE bootcode = "Cic6103" ->
              LET c1 == Add(checks, BitXor(t6, t4), t3)
                  c2 == Add(checks, BitXor(t5, t2), t1)
              IN IF IsOk(c1) /\ IsOk(c2) THEN Ok(<<c1.val, c2.val>>) ELSE Panic
         [] bootcode = "Cic6106" ->
              LET m1 == Mul(checks, t6, t4)
                  c1 == IF IsOk(m1) THEN Add(checks, m1.val, t3) ELSE Panic
                  m2 == Mul(checks, t5, t2)
                  c2 == IF IsOk(m2) THEN Add(checks, m2.val, t1) ELSE Panic
              IN IF IsOk(c1) /\ IsOk(c2) THEN Ok(<<c1.val, c2.val>>) ELSE Panic
         [] OTHER -> Ok(<<BitXor(BitXor(t6, t4), t3), BitXor(BitXor(t5, t2), t1)>>)

\* calculate_crc: Ok(<<"Some", <<crc1, crc2>>>>), Ok(<<"None", <<>>>>) or Panic
\* the return statement (lines 87-91)
calculate_crc_return(c) == IF IsOk(c) THEN Ok(<<"Some", c.val>>) ELSE Panic
calculate_crc_finish(checks, bootcode, t) ==
    IF ~IsOk(t) THEN Panic
    ELSE calculate_crc_return(calculate_crc_combine(checks, bootcode, t.val))
\* the loop over the words of the section (lines 64-86)
calculate_crc_loop(bootcode, crc_section) ==
    LET Step(t, i) == calculate_crc_step(bootcode, crc_section, t, i)
        nwords == CrcSectionLen \div 4
    IN FoldLeft(Step, Ok(<<seed(bootcode), seed(bootcode), seed(bootcode),
                           seed(bootcode), seed(bootcode), seed(bootcode)>>),
                [k \in 1 .. nwords |-> k - 1], 1, nwords)
calculate_crc_over(checks, bootcode, crc_section) ==
    IF ~IsOk(crc_section) THEN Panic
    ELSE calculate_crc_finish(checks, bootcode, calculate_crc_loop(bootcode, crc_section.val))
\* line 57 (identify(rom)?) and line 71
calculate_crc_identified(checks, rom, bootcode) ==
    IF ~IsOk(bootcode) THEN Panic
    ELSE IF bootcode.val = "None" THEN Ok(<<"None", <<>>>>)
    ELSE calculate_crc_over(checks, bootcode.val, Slice(rom, CRC_START, CRC_START + CrcSectionLen))
calculate_crc(checks, rom) == calculate_crc_identified(checks, rom, identify(rom))

(***************************************************************************)
(* main.rs: symbols, segments, the patch closure                           *)
(***************************************************************************)
\* usize values.  A non-negative integer is itself; a negative integer -k is
\* the wrapped value 2^64 - k, which a subtraction below zero leaves in a
\* build without overflow checks.
USub(checks, x, y) == IF x < y /\ checks THEN Panic ELSE Ok(x - y)
UAdd(checks, x, k) == IF x < 0 /\ x + k >= 0 /\ checks THEN Panic ELSE Ok(x + k)
ULeq(x, y) ==
    IF x >= 0 /\ y >= 0 THEN x <= y
    ELSE IF x >= 0 THEN TRUE
    ELSE IF y >= 0 THEN FALSE
    ELSE x <= y

\* std::ops::Range<usize>: <<start, end>>, and its len()
RangeLen(r) == IF r[1] < r[2] THEN r[2] - r[1] ELSE 0

\* line 158
OVERLAY_NAMES ==
    <<"core1", "core2", "CC", "GV", "MMM", "TTC", "MM", "BGS", "RBB", "FP", "SM",
      "cutscenes", "lair", "fight", "CCW", "emptyLvl">>

\* overlay_names...enumerate().find(|(_, name)| *name == n).unwrap().0, from 1
IndexOf(names, n) == CHOOSE i \in 1 .. Len(names) : names[i] = n /\ \A j \in 1 .. i - 1 : names[j] # n

\* find_elf_symbol: the value of the symbol, or the panic "could not find symbol"
find_elf_symbol(syms, name) == IF name \in DOMAIN syms THEN Ok(syms[name]) ELSE Panic

\* the eight symbols OverlayInfo::from_elf_symbols looks up for a segment
RangeSymbolNames(name) ==
    [text_start |-> name \o "_TEXT_START",
     text_end   |-> IF name = "core1" THEN name \o "_DATA_START_OFFSET" ELSE name \o "_TEXT_END",
     data_start |-> IF name = "core1" THEN name \o "_DATA_START_OFFSET" ELSE name \o "_DATA_START",
     data_end   |-> name \o "_DATA_END",
     bss_start  |-> name \o "_BSS_START",
     bss_end    |-> name \o "_BSS_END",
     rom_start  |-> name \o "_ROM_START",
     rom_end    |-> name \o "_ROM_END"]

\* OverlayInfo::from_elf_symbols
from_elf_symbols(name, syms) ==
    LET n == RangeSymbolNames(name)
        v == [f \in DOMAIN n |-> find_elf_symbol(syms, n[f])]
    IN IF \E f \in DOMAIN n : ~IsOk(v[f]) THEN Panic
       ELSE Ok([name |-> name,
                text |-> <<v.text_start.val, v.text_end.val>>,
                data |-> <<v.data_start.val, v.data_end.val>>,
                bss  |-> <<v.bss_start.val, v.bss_end.val>>,
                uncompressed_rom |-> <<v.rom_start.val, v.rom_end.val>>])

\* Vec::splice(start .. end, value): Panic unless start <= end <= len
splice_truncating(bytes, start, end, value) ==
    IF ULeq(start, end) /\ ULeq(start, Len(bytes))
    THEN Ok([i \in 1 .. Len(bytes) |->
                IF start < i /\ i <= start + Len(value) THEN value[i - start] ELSE bytes[i]])
    ELSE Panic
splice(bytes, start, end, value) ==
    IF ULeq(start, end) /\ ULeq(end, Len(bytes))
    THEN Ok(SubSeq(bytes, 1, start) \o value \o SubSeq(bytes, end + 1, Len(bytes)))
    ELSE Panic

\* what the closure does with a symbol that is absent
missing_symbol_panics(bytes) == Panic
missing_symbol(bytes) == Ok([bytes |-> bytes, warned |-> TRUE])

\* the closure replace_symbol (lines 178-187): Ok([bytes, warned]) or Panic
replace_symbol(checks, syms, bytes, rom_offset, symbol_name, value) ==
    IF symbol_name \notin DOMAIN syms THEN missing_symbol(bytes)
    ELSE LET offset == USub(checks, syms[symbol_name], rom_offset)
             end == IF IsOk(offset) THEN UAdd(checks, offset.val, Len(value)) ELSE Panic
             spliced == IF IsOk(end) THEN splice(bytes, offset.val, end.val, value) ELSE Panic
         IN IF IsOk(spliced) THEN Ok([bytes |-> spliced.val, warned |-> FALSE]) ELSE Panic


(***************************************************************************)
(* main.rs: the pipeline, one action per group of statements               *)
(***************************************************************************)
inputVars == <<overflow_checks, symbol_out, symbols, uncompressed_rom>>
segmentVars == <<bk_boot_info, bk_boot_bytes, overlay_offsets, uncomp_code_bytes, code_crcs>>
patchVars == <<uncomp_data_bytes, sm_data_crc_complete, core2_data_crc, core1_data_crc,
               core1_code_crc, stdout, patch_log>>
packVars == <<overlay_names, rzip_bytes, i_offset>>
headerVars == <<crc_rom_start, rom_crc_bytes>>
outVars == <<out_file, out_pos, symbol_file, write_log>>
buildVars == <<segmentVars, patchVars, packVars, headerVars, outVars, pc>>
decompVars == <<compressed_rom, game_id, file_offsets, uncompressed_overlays, decomp_pc>>
\* what the steps of the compressor's main leave alone
unitVars == <<call, ret, decompVars>>
vars == <<inputVars, buildVars, unitVars>>

\* the total image size, 0x1000000 in the program (lines 303-333)
ROM_SIZE == 4992
\* the bytes read back for the boot CRC, 0x101000 in the program (line 336)
CRC_READ_LEN == CRC_START + CrcSectionLen
\* the size of the checksum header (line 309), and where the boot CRC goes (line 341)
ROM_CRC_LEN == 32
CIC_CRC_OFFSET == 16
\* line 290
VERSION_STRING == "us_v10"

\* the self-checking overlays in the order of lines 189-256, and the symbols
\* of their three slots
SELF_CHECKING == <<"SM", "MM", "TTC", "BGS", "CC", "GV", "MMM">>
PatchSymbols(ov) ==
    CASE ov = "SM"  -> <<"D_8038AAE0", "D_8038AAE4", "D_8038AAE8">>
      [] ov = "MM"  -> <<"D_803899C0", "D_803899C4", "D_803899C8">>
      [] ov = "TTC" -> <<"D_8038C750", "D_8038C754", "D_8038C758">>
      [] ov = "BGS" -> <<"D_80390B20", "D_80390B24", "D_80390B28">>
      [] ov = "CC"  -> <<"D_80389BE0", "D_80389BE4", "D_80389BE8">>
      [] ov = "GV"  -> <<"D_80390F30", "D_80390F34", "D_80390F38">>
      [] ov = "MMM" -> <<"D_8038C300", "D_8038C304", "D_8038C308">>

\* a step of main that panics, and a value main has not computed yet
Unset == <<>>

\* The patch blocks of main as steps on st = Ok([data, crc, out, log]) or Panic:
\* data is uncomp_data_bytes, crc the last bk_crc main took of a data span,
\* out what was printed, log the replace_symbol calls made so far.
PatchState(data, out, log) == Ok([data |-> data, crc |-> Unset, out |-> out, log |-> log])

PatchResult(st, r, idx, symbol_name, value) ==
    IF ~IsOk(r) THEN Panic
    ELSE Ok([st.val EXCEPT
               !.data[idx] = r.val.bytes,
               !.out = IF r.val.warned THEN Append(@, symbol_name) ELSE @,
               !.log = Append(@, [overlay |-> idx, symbol |-> symbol_name, value |-> value,
                                  written |-> ~r.val.warned])])

\* replace_symbol(&mut uncomp_data_bytes[idx], overlay_offsets[idx].data.start, name, value)
PatchStep(checks, syms, offsets, st, idx, symbol_name, value) ==
    IF ~IsOk(st) THEN st
    ELSE PatchResult(st, replace_symbol(checks, syms, st.val.data[idx], offsets[idx].data[1],
                                        symbol_name, value),
                     idx, symbol_name, value)

\* let data_crc = bk_crc(&uncomp_data_bytes[idx])
CrcResult(st, crc) == IF ~IsOk(crc) THEN Panic ELSE Ok([st.val EXCEPT !.crc = crc.val])
CrcStep(checks, st, idx) ==
    IF ~IsOk(st) THEN st ELSE CrcResult(st, bk_crc(checks, st.val.data[idx]))

\* lines 153-159
LocateSegments ==
    /\ pc = "locate"
    /\ LET boot == from_elf_symbols("boot_bk_boot", symbols)
           boot_bytes == IF IsOk(boot)
                         THEN Slice(uncompressed_rom, boot.val.uncompressed_rom[1],
                                    boot.val.uncompressed_rom[2])
                         ELSE Panic
           infos == [i \in 1 .. Len(OVERLAY_NAMES) |-> from_elf_symbols(OVERLAY_NAMES[i], symbols)]
       IN IF IsOk(boot_bytes) /\ \A i \in DOMAIN infos : IsOk(infos[i])
          THEN /\ bk_boot_info' = boot.val
               /\ bk_boot_bytes' = boot_bytes.val
               /\ overlay_names' = OVERLAY_NAMES
               /\ overlay_offsets' = [i \in DOMAIN infos |-> infos[i].val]
               /\ pc' = "split"
          ELSE /\ pc' = "panicked"
               /\ UNCHANGED <<bk_boot_info, bk_boot_bytes, overlay_names, overlay_offsets>>
    /\ UNCHANGED <<inputVars, uncomp_code_bytes, code_crcs, patchVars, rzip_bytes, i_offset,
                   headerVars, outVars, unitVars>>

\* lines 163-172
SplitSpans ==
    /\ pc = "split"
    /\ LET code == [i \in DOMAIN overlay_offsets |->
                      LET x == overlay_offsets[i]
                      IN Slice(uncompressed_rom, x.uncompressed_rom[1],
                               x.uncompressed_rom[1] + RangeLen(x.text))]
           data == [i \in DOMAIN overlay_offsets |->
                      LET x == overlay_offsets[i]
                      IN Slice(uncompressed_rom, x.uncompressed_rom[1] + RangeLen(x.text),
                               x.uncompressed_rom[2])]
           crcs == [i \in DOMAIN overlay_offsets |->
                      IF IsOk(code[i]) THEN bk_crc(overflow_checks, code[i].val) ELSE Panic]
       IN IF \A i \in DOMAIN overlay_offsets : IsOk(data[i]) /\ IsOk(crcs[i])
          THEN /\ uncomp_code_bytes' = [i \in DOMAIN code |-> code[i].val]
               /\ uncomp_data_bytes' = [i \in DOMAIN data |-> data[i].val]
               /\ code_crcs' = [i \in DOMAIN crcs |-> crcs[i].val]
               /\ pc' = "patch_SM"
          ELSE /\ pc' = "panicked"
               /\ UNCHANGED <<uncomp_code_bytes, uncomp_data_bytes, code_crcs>>
    /\ UNCHANGED <<inputVars, bk_boot_info, bk_boot_bytes, overlay_offsets,
                   sm_data_crc_complete, core2_data_crc, core1_data_crc, core1_code_crc,
                   stdout, patch_log, packVars, headerVars, outVars, unitVars>>

\* the pc after the block of a self-checking overlay
AfterSelfChecking(ov) ==
    LET k == IndexOf(SELF_CHECKING, ov)
    IN IF k < Len(SELF_CHECKING) THEN "patch_" \o SELF_CHECKING[k + 1] ELSE "core2"

\* the checksum word a self-checking overlay stores in its third slot
third_slot_word_hi(data_crc) == data_crc[2]
third_slot_word(data_crc) == data_crc[1]

\* replace_symbol(.., third symbol, data_crc.0.to_be_bytes())
PatchCrcWord(checks, syms, offsets, st, idx, symbol_name) ==
    IF ~IsOk(st) THEN st
    ELSE PatchStep(checks, syms, offsets, st, idx, symbol_name,
                   to_be_bytes(third_slot_word(st.val.crc)))

\* one block of lines 189-256: two code checksum words, the third slot zeroed,
\* the data checksum, its first word into the third slot (and for SM the
\* checksum of the finished data span, line 198)
SelfCheckingBlock(checks, syms, offsets, crcs, st, ov, indx, s) ==
    LET patched ==
          PatchCrcWord(checks, syms, offsets,
            CrcStep(checks,
              PatchStep(checks, syms, offsets,
                PatchStep(checks, syms, offsets,
                  PatchStep(checks, syms, offsets, st, indx, s[1], to_be_bytes(crcs[indx][1])),
                  indx, s[2], to_be_bytes(crcs[indx][2])),
                indx, s[3], <<0, 0, 0, 0>>),
              indx),
            indx, s[3])
    IN IF ov = "SM" THEN CrcStep(checks, patched, indx) ELSE patched

StoreSelfChecking(st, ov) ==
    IF IsOk(st)
    THEN /\ uncomp_data_bytes' = st.val.data
         /\ stdout' = st.val.out
         /\ patch_log' = st.val.log
         /\ sm_data_crc_complete' = IF ov = "SM" THEN st.val.crc ELSE sm_data_crc_complete
         /\ pc' = AfterSelfChecking(ov)
    ELSE /\ pc' = "panicked"
         /\ UNCHANGED <<uncomp_data_bytes, stdout, patch_log, sm_data_crc_complete>>

PatchSelfChecking(ov) ==
    /\ pc = "patch_" \o ov
    /\ StoreSelfChecking(
         SelfCheckingBlock(overflow_checks, symbols, overlay_offsets, code_crcs,
                           PatchState(uncomp_data_bytes, stdout, patch_log),
                           ov, IndexOf(overlay_names, ov), PatchSymbols(ov)),
         ov)
    /\ UNCHANGED <<inputVars, segmentVars, core2_data_crc, core1_data_crc, core1_code_crc,
                   packVars, headerVars, outVars, unitVars>>

\* the core2 patch applied to the data span of core1 instead
core2_patch_target_core1 == "core1"
\* the overlay whose data span the core2 patch of line 259 is applied to
core2_patch_target == "core2"

\* lines 258-262
StoreCore2(st) ==
    IF IsOk(st)
    THEN /\ uncomp_data_bytes' = st.val.data
         /\ stdout' = st.val.out
         /\ patch_log' = st.val.log
         /\ core2_data_crc' = st.val.crc
         /\ pc' = "core1"
    ELSE /\ pc' = "panicked"
         /\ UNCHANGED <<uncomp_data_bytes, stdout, patch_log, core2_data_crc>>

PatchCore2 ==
    /\ pc = "core2"
    /\ StoreCore2(
         CrcStep(overflow_checks,
           PatchStep(overflow_checks, symbols, overlay_offsets,
                     PatchState(uncomp_data_bytes, stdout, patch_log),
                     IndexOf(overlay_names, core2_patch_target), "D_803727F4",
                     to_be_bytes(code_crcs[IndexOf(overlay_names, "core2")][2])),
           IndexOf(overlay_names, "core2")))
    /\ UNCHANGED <<inputVars, segmentVars, sm_data_crc_complete, core1_data_crc, core1_code_crc,
                   packVars, headerVars, outVars, unitVars>>

\* lines 263-269
StoreCore1(st, indx) ==
    IF IsOk(st)
    THEN /\ uncomp_data_bytes' = st.val.data
         /\ stdout' = st.val.out
         /\ patch_log' = st.val.log
         /\ core1_data_crc' = st.val.crc
         /\ core1_code_crc' = code_crcs[indx]
         /\ pc' = "compress"
    ELSE /\ pc' = "panicked"
         /\ UNCHANGED <<uncomp_data_bytes, stdout, patch_log, core1_data_crc, core1_code_crc>>

\* the block of core1 with the data checksum taken before the two patches
Core1Block_crc_first(checks, syms, offsets, st, indx, core2_crc, sm_crc) ==
    PatchStep(checks, syms, offsets,
      PatchStep(checks, syms, offsets, CrcStep(checks, st, indx),
                indx, "D_80276574", to_be_bytes(core2_crc[2])),
      indx, "D_80275650", to_be_bytes(sm_crc[2]))
\* lines 264-268: the two patches of core1's data span, then its data checksum
Core1Block(checks, syms, offsets, st, indx, core2_crc, sm_crc) ==
    CrcStep(checks,
      PatchStep(checks, syms, offsets,
        PatchStep(checks, syms, offsets, st,
                  indx, "D_80276574", to_be_bytes(core2_crc[2])),
        indx, "D_80275650", to_be_bytes(sm_crc[2])),
      indx)

PatchCore1 ==
    /\ pc = "core1"
    /\ StoreCore1(
         Core1Block(overflow_checks, symbols, overlay_offsets,
                    PatchState(uncomp_data_bytes, stdout, patch_log),
                    IndexOf(overlay_names, "core1"), core2_data_crc, sm_data_crc_complete),
         IndexOf(overlay_names, "core1"))
    /\ UNCHANGED <<inputVars, segmentVars, sm_data_crc_complete, core2_data_crc,
                   packVars, headerVars, outVars, unitVars>>

\* rarezip::bk::zip is an external crate.  All the pipeline takes from it is
\* a byte sequence determined by its input; this stand-in keeps the input
\* recoverable: a two-byte tag, the length as a big-endian word, the bytes.
zip(bytes) == <<17, 114>> \o to_be_bytes(W(0, Len(bytes))) \o bytes

\* line 276: len + (16-1) & !(16-1), with + binding tighter than &
pad16_len(len) == ((len + 15) \div 16) * 16
resize(bytes, new_len, value) ==
    [i \in 1 .. new_len |-> IF i <= Len(bytes) THEN bytes[i] ELSE value]

\* Vec::swap on positions a and b, counted from 0
swap(v, a, b) == [v EXCEPT ![a + 1] = v[b + 1], ![b + 1] = v[a + 1]]

\* lines 272-286
Compress ==
    /\ pc = "compress"
    /\ LET rzips == [i \in DOMAIN uncomp_code_bytes |->
                       LET code_rzip == zip(uncomp_code_bytes[i]) \o zip(uncomp_data_bytes[i])
                       IN resize(code_rzip, pad16_len(Len(code_rzip)), 0)]
       IN /\ rzip_bytes' = swap(rzips, 3, 4)
          /\ overlay_names' = swap(overlay_names, 3, 4)
          /\ i_offset' = overlay_offsets[1].uncompressed_rom[1]
    /\ pc' = IF symbol_out THEN "symbols" ELSE "header"
    /\ UNCHANGED <<inputVars, segmentVars, patchVars, headerVars, outVars, unitVars>>

\* {:X?} of a usize: upper-case hexadecimal digits, no prefix, no padding
HexDigit(d) ==
    CASE d = 0 -> "0" [] d = 1 -> "1" [] d = 2 -> "2" [] d = 3 -> "3"
      [] d = 4 -> "4" [] d = 5 -> "5" [] d = 6 -> "6" [] d = 7 -> "7"
      [] d = 8 -> "8" [] d = 9 -> "9" [] d = 10 -> "A" [] d = 11 -> "B"
      [] d = 12 -> "C" [] d = 13 -> "D" [] d = 14 -> "E" [] d = 15 -> "F"
RECURSIVE UpperHex(_)
UpperHex(n) == IF n < 16 THEN HexDigit(n) ELSE UpperHex(n \div 16) \o HexDigit(n % 16)

\* the two writeln! of lines 297-298
symbol_lines(name, from, to) ==
    <<"boot_" \o name \o "_" \o VERSION_STRING \o "_rzip_ROM_START = 0x" \o UpperHex(from) \o ";",
      "boot_" \o name \o "_" \o VERSION_STRING \o "_rzip_ROM_END = 0x" \o UpperHex(to) \o ";">>

RECURSIVE symbol_listing(_, _, _, _)
symbol_listing(names, rzips, k, offset) ==
    IF k > Len(names) THEN [lines |-> <<>>, i_offset |-> offset]
    ELSE LET rest == symbol_listing(names, rzips, k + 1, offset + Len(rzips[k]))
         IN [lines |-> symbol_lines(names[k], offset, offset + Len(rzips[k])) \o rest.lines,
             i_offset |-> rest.i_offset]

\* lines 287-300: File::create truncates, the loop writes the listing
EmitSymbols ==
    /\ pc = "symbols"
    /\ LET listing == symbol_listing(overlay_names, rzip_bytes, 1, i_offset)
       IN /\ symbol_file' = listing.lines
          /\ i_offset' = listing.i_offset
    /\ pc' = "done"
    /\ UNCHANGED <<inputVars, segmentVars, patchVars, overlay_names, rzip_bytes, headerVars,
                   out_file, out_pos, write_log, unitVars>>

RECURSIVE SumLen(_, _)
SumLen(seqs, k) == IF k = 0 THEN 0 ELSE SumLen(seqs, k - 1) + Len(seqs[k])

\* lines 303-315
StoreHeader(bk_boot_crc, start) ==
    IF IsOk(bk_boot_crc) /\ IsOk(start)
    THEN /\ i_offset' = i_offset + SumLen(rzip_bytes, Len(rzip_bytes))
         /\ crc_rom_start' = start.val
         /\ rom_crc_bytes' = to_be_bytes(bk_boot_crc.val[1]) \o to_be_bytes(bk_boot_crc.val[2])
                               \o to_be_bytes(core1_code_crc[1]) \o to_be_bytes(core1_code_crc[2])
                               \o to_be_bytes(core1_data_crc[1]) \o to_be_bytes(core1_data_crc[2])
                               \o [i \in 1 .. ROM_CRC_LEN - 24 |-> 0]
         /\ pc' = "open"
    ELSE /\ pc' = "panicked"
         /\ UNCHANGED <<i_offset, crc_rom_start, rom_crc_bytes>>

BuildHeader ==
    /\ pc = "header"
    /\ StoreHeader(bk_crc(overflow_checks, bk_boot_bytes), find_elf_symbol(symbols, "crc_ROM_START"))
    /\ UNCHANGED <<inputVars, segmentVars, patchVars, overlay_names, rzip_bytes, outVars, unitVars>>

\* lines 319-324: read, write, create, no truncate: what the file held stays
OpenOut ==
    /\ pc = "open"
    /\ out_pos' = 0
    /\ pc' = "write_prefix"
    /\ UNCHANGED <<inputVars, segmentVars, patchVars, packVars, headerVars,
                   out_file, symbol_file, write_log, unitVars>>

\* File::write_all at the file position: overwrites, and grows the file at its end
write_all_insert(file, pos, bytes) ==
    SubSeq(file, 1, pos) \o bytes \o SubSeq(file, pos + 1, Len(file))
write_all(file, pos, bytes) ==
    [i \in 1 .. (IF Len(file) > pos + Len(bytes) THEN Len(file) ELSE pos + Len(bytes)) |->
        IF pos < i /\ i <= pos + Len(bytes) THEN bytes[i - pos] ELSE file[i]]

\* one out_file.write_all(..).unwrap() of main: the slice may panic
Written(stage, bytes, next) ==
    /\ IF IsOk(bytes)
       THEN /\ out_file' = write_all(out_file, out_pos, bytes.val)
            /\ out_pos' = out_pos + Len(bytes.val)
            /\ write_log' = Append(write_log, [stage |-> stage, at |-> out_pos, len |-> Len(bytes.val)])
            /\ pc' = next
       ELSE /\ pc' = "panicked"
            /\ UNCHANGED <<out_file, out_pos, write_log>>
    /\ UNCHANGED <<inputVars, segmentVars, patchVars, packVars, headerVars, symbol_file, unitVars>>

\* line 325
WritePrefix ==
    /\ pc = "write_prefix"
    /\ Written("write_prefix", Slice(uncompressed_rom, 0, bk_boot_info.uncompressed_rom[1]),
               "write_boot")
\* line 326
WriteBoot ==
    /\ pc = "write_boot"
    /\ Written("write_boot", Ok(bk_boot_bytes), "write_header")
\* line 327
WriteHeader ==
    /\ pc = "write_header"
    /\ Written("write_header", Ok(rom_crc_bytes), "write_gap")
\* line 328
gap_start(start) == start + ROM_CRC_LEN
WriteGap ==
    /\ pc = "write_gap"
    /\ Written("write_gap",
               Slice(uncompressed_rom, gap_start(crc_rom_start),
                     overlay_offsets[1].uncompressed_rom[1]),
               "write_rzips")
\* lines 329-331
RECURSIVE Concat(_, _)
Concat(seqs, k) == IF k = 0 THEN <<>> ELSE Concat(seqs, k - 1) \o seqs[k]
WriteRzips ==
    /\ pc = "write_rzips"
    /\ Written("write_rzips", Ok(Concat(rzip_bytes, Len(rzip_bytes))), "write_fill")
\* line 333: vec![0xFF; 0x1000000 - i_offset]
fill_bytes(offset) ==
    IF offset <= ROM_SIZE THEN Ok([i \in 1 .. ROM_SIZE - offset |-> 255]) ELSE Panic
WriteFill ==
    /\ pc = "write_fill"
    /\ Written("write_fill", fill_bytes(i_offset), "cic")

\* where the boot CRC is written (line 341)
cic_crc_seek_header == crc_rom_start
cic_crc_seek_crc_window == CRC_START
cic_crc_seek == CIC_CRC_OFFSET

\* lines 336-338: seek to 0 and read_exact 0x101000 bytes
read_crc_bytes(file) == Slice(file, 0, CRC_READ_LEN)
\* line 339
boot_crc_value(checks, crc_bytes) ==
    IF IsOk(crc_bytes) THEN calculate_crc(checks, crc_bytes.val) ELSE Panic
\* line 340
boot_crc_words(crc_value) == to_be_bytes(crc_value[1]) \o to_be_bytes(crc_value[2])
\* lines 339-342: unwrap, seek, write
StoreBootCrc(crc_value) ==
    IF IsOk(crc_value) /\ crc_value.val[1] = "Some"
    THEN /\ out_file' = write_all(out_file, cic_crc_seek, boot_crc_words(crc_value.val[2]))
         /\ out_pos' = cic_crc_seek + 8
         /\ write_log' = Append(write_log, [stage |-> "cic", at |-> cic_crc_seek, len |-> 8])
         /\ pc' = "done"
    ELSE /\ pc' = "panicked"
         /\ UNCHANGED <<out_file, out_pos, write_log>>

CicPatch ==
    /\ pc = "cic"
    /\ StoreBootCrc(boot_crc_value(overflow_checks, read_crc_bytes(out_file)))
    /\ UNCHANGED <<inputVars, segmentVars, patchVars, packVars, headerVars, symbol_file, unitVars>>

\* the values the variables of one part of the model hold while another part runs
NoInputs ==
    /\ symbol_out = FALSE
    /\ symbols = <<>>
    /\ uncompressed_rom = <<>>
BuildUnset ==
    /\ bk_boot_info = Unset /\ bk_boot_bytes = Unset
    /\ overlay_names = Unset /\ overlay_offsets = Unset
    /\ uncomp_code_bytes = Unset /\ uncomp_data_bytes = Unset /\ code_crcs = Unset
    /\ sm_data_crc_complete = Unset /\ core2_data_crc = Unset
    /\ core1_data_crc = Unset /\ core1_code_crc = Unset
    /\ rzip_bytes = Unset /\ i_offset = 0
    /\ crc_rom_start = 0 /\ rom_crc_bytes = Unset
    /\ out_pos = 0 /\ symbol_file = <<>>
    /\ stdout = <<>> /\ patch_log = <<>> /\ write_log = <<>>
BuildIdle ==
    /\ BuildUnset
    /\ out_file = <<>>
    /\ pc = "idle"
DecompIdle ==
    /\ compressed_rom = Unset /\ game_id = Unset /\ file_offsets = Unset
    /\ uncompressed_overlays = Unset
    /\ decomp_pc = "idle"

(***************************************************************************)
(* decomp/main.rs: the decompressor                                        *)
(*                                                                         *)
(* The image is 16 MiB of bytes that only md5 and unzip look into, so it   *)
(* is kept as [signature, len, content]: its first four bytes, its length, *)
(* and the name of the game version whose image its bytes are once in      *)
(* big-endian order ("other" for any other content).                       *)
(***************************************************************************)
\* the length of an image: 0x1000000, what the compressor writes (comp/main.rs 333)
COMPRESSED_ROM_LEN == 16777216

GameVersions == {"USA", "PAL", "JP", "USARevA"}
BE_SIGNATURE == <<128, 55, 18, 64>>

\* lines 39-44: chunks_exact(2), each pair swapped; an odd last byte is dropped
le_to_me(le_buff) ==
    [le_buff EXCEPT
       !.signature = <<@[2], @[1], @[4], @[3]>>,
       !.len = 2 * (@ \div 2)]
\* lines 46-51: chunks_exact(4), each word reversed; a last partial word is dropped
le_to_be(le_buff) ==
    [le_buff EXCEPT
       !.signature = <<@[4], @[3], @[2], @[1]>>,
       !.len = 4 * (@ \div 4)]

\* lines 53-61
rom_to_big_endian(rom_bin) ==
    CASE rom_bin.len < 4 -> Panic
      [] rom_bin.len >= 4 /\ rom_bin.signature = <<128, 55, 18, 64>> -> Ok(rom_bin)
      [] rom_bin.len >= 4 /\ rom_bin.signature = <<64, 18, 55, 128>> -> Ok(le_to_be(rom_bin))
      [] rom_bin.len >= 4 /\ rom_bin.signature = <<55, 128, 64, 18>> -> Ok(le_to_me(rom_bin))
      [] OTHER -> Panic

\* lines 28-37: the md5 of the bytes is one of the four known digests, or not
get_hash(rom) ==
    IF rom.signature = BE_SIGNATURE /\ rom.content \in GameVersions
    THEN Ok(rom.content)
    ELSE Panic

\* lines 89-107
USA_FILE_OFFSETS ==
    << \hF19250, \hF19250 + \h1D09B,
       \hF37F90, \hF9CAE0 + \h64B50,
       \hFA3FD0, \hFA3FD0 + \h1DC6,
       \hFA5F50, \hFA5F50 + \h2D96,
       \hFA9150, \hFA9150 + \h512E,
       \hFAE860, \hFAE860 + \h328B,
       \hFB24A0, \hFB24A0 + \h1E39,
       \hFB44E0, \hFB44E0 + \h5130,
       \hFB9A30, \hFB9A30 + \h4BB2,
       \hFBEBE0, \hFBEBE0 + \h540F,
       \hFC4810, \hFC4810 + \h23FF,
       \hFC6F20, \hFC6F20 + \h1BDC,
       \hFC9150, \hFC9150 + \h6548,
       \hFD0420, \hFD0420 + \h5640,
       \hFD6190, \hFD6190 + \h416F,
       \hFDAA10, \hFDAA10 + \hE,
       \hFDAA30 >>
\* lines 108-126
PAL_FILE_OFFSETS ==
    << \hF3D980, \hF3D980 + \h1C95C,
       \hF5BEC0, \hF5BEC0 + \h64E3D,
       \hFC8460, \hFC8460 + \h1DB1,
       \hFCA3C0, \hFCA3C0 + \h2D9A,
       \hFCD5C0, \hFCD5C0 + \h5121,
       \hFD2CC0, \hFD2CC0 + \h3291,
       \hFD6900, \hFD6900 + \h1E33,
       \hFD8930, \hFD8930 + \h5139,
       \hFDDE80, \hFDDE80 + \h4BD6,
       \hFE3060, \hFE3060 + \h5414,
       \hFE8CA0, \hFE8CA0 + \h2538,
       \hFEB540, \hFEB540 + \h1BDD,
       \hFED780, \hFED780 + \h6557,
       \hFF4A50, \hFF4A50 + \h56AD,
       \hFFA830, \hFFA830 + \h414E,
       \hFFF090, \hFFF090 + \hE,
       \hFFF0B0 >>
\* lines 87-128: the table of the version, a panic for a version without one
file_offsets_of(id) ==
    CASE id = "USA" -> Ok(USA_FILE_OFFSETS)
      [] id = "PAL" -> Ok(PAL_FILE_OFFSETS)
      [] OTHER -> Panic

\* compressed_rom[from .. to]: the range must be in order and inside the image
slice_range(rom, from, to) ==
    IF from <= to /\ to <= rom.len THEN Ok([from |-> from, to |-> to]) ELSE Panic
\* rarezip::bk::unzip is an external crate: its result is kept as the bytes it
\* was given
unzip(ovrly) == [unzipped |-> ovrly]

\* lines 79-80
DecompRead ==
    /\ decomp_pc = "read"
    /\ IF IsOk(rom_to_big_endian(compressed_rom))
       THEN /\ compressed_rom' = rom_to_big_endian(compressed_rom).val
            /\ decomp_pc' = "hash"
       ELSE /\ decomp_pc' = "panicked"
            /\ UNCHANGED compressed_rom
    /\ UNCHANGED <<game_id, file_offsets, uncompressed_overlays>>
    /\ UNCHANGED <<inputVars, buildVars, call, ret>>
\* line 83
DecompHash ==
    /\ decomp_pc = "hash"
    /\ IF IsOk(get_hash(compressed_rom))
       THEN /\ game_id' = get_hash(compressed_rom).val
            /\ decomp_pc' = "offsets"
       ELSE /\ decomp_pc' = "panicked"
            /\ UNCHANGED game_id
    /\ UNCHANGED <<compressed_rom, file_offsets, uncompressed_overlays>>
    /\ UNCHANGED <<inputVars, buildVars, call, ret>>
\* lines 87-128
DecompOffsets ==
    /\ decomp_pc = "offsets"
    /\ IF IsOk(file_offsets_of(game_id))
       THEN /\ file_offsets' = file_offsets_of(game_id).val
            /\ uncompressed_overlays' = <<>>
            /\ decomp_pc' = "slice"
       ELSE /\ decomp_pc' = "panicked"
            /\ UNCHANGED <<file_offsets, uncompressed_overlays>>
    /\ UNCHANGED <<compressed_rom, game_id>>
    /\ UNCHANGED <<inputVars, buildVars, call, ret>>
\* lines 131-138: the iterator takes one window, slices the image and unzips
\* the slice, window after window
DecompSlice ==
    /\ decomp_pc = "slice"
    /\ Len(uncompressed_overlays) < Len(file_offsets) - 1
    /\ LET k == Len(uncompressed_overlays) + 1
           ovrly == slice_range(compressed_rom, file_offsets[k], file_offsets[k + 1])
       IN IF IsOk(ovrly)
          THEN /\ uncompressed_overlays' = Append(uncompressed_overlays, unzip(ovrly.val))
               /\ decomp_pc' = "slice"
          ELSE /\ decomp_pc' = "panicked"
               /\ UNCHANGED uncompressed_overlays
    /\ UNCHANGED <<compressed_rom, game_id, file_offsets>>
    /\ UNCHANGED <<inputVars, buildVars, call, ret>>
\* lines 140-155: the two swaps; the overlays are then written in that order
DecompReconstruct ==
    /\ decomp_pc = "slice"
    /\ Len(uncompressed_overlays) = Len(file_offsets) - 1
    /\ uncompressed_overlays' = swap(swap(uncompressed_overlays, 6, 8), 7, 9)
    /\ decomp_pc' = "done"
    /\ UNCHANGED <<compressed_rom, game_id, file_offsets>>
    /\ UNCHANGED <<inputVars, buildVars, call, ret>>

\* the files the decompressor is run on: an image of each version in each of
\* the three byte orders, other N64 images, a file that is no N64 image, and
\* a file shorter than a signature
Signatures == {<<128, 55, 18, 64>>, <<64, 18, 55, 128>>, <<55, 128, 64, 18>>}
DecompInputs ==
    {[signature |-> sg, len |-> COMPRESSED_ROM_LEN, content |-> c] :
        sg \in Signatures, c \in GameVersions \cup {"other"}}
    \cup {[signature |-> <<0, 0, 0, 0>>, len |-> n, content |-> "other"] :
            n \in {2, COMPRESSED_ROM_LEN}}

InitDecomp ==
    /\ overflow_checks \in BOOLEAN
    /\ NoInputs
    /\ BuildIdle
    /\ call = Unset
    /\ ret = NotReturned
    /\ compressed_rom \in DecompInputs
    /\ game_id = Unset /\ file_offsets = Unset /\ uncompressed_overlays = Unset
    /\ decomp_pc = "read"

NextDecomp ==
    \/ DecompRead
    \/ DecompHash
    \/ DecompOffsets
    \/ DecompSlice
    \/ DecompReconstruct

SpecDecomp == InitDecomp /\ [][NextDecomp]_vars


(***************************************************************************)
(* Specification SpecCrc: bk_crc called on one span.                       *)
(***************************************************************************)
MaxSpanLen == 3
SpanBytes == {0, 1, 128, 255}
Spans == UNION {[1 .. n -> SpanBytes] : n \in 0 .. MaxSpanLen}
\* 263172 blocks of 64 bytes 0xFF: 16,843,008 bytes whose sum is 0xFFFFFF00
LONG_RUN_BLOCKS == W(4, 1028)

InitCrc ==
    /\ overflow_checks \in BOOLEAN
    /\ call \in {[fn |-> "bk_crc", blocks |-> n, bytes |-> s] :
                    n \in {ZERO32, LONG_RUN_BLOCKS}, s \in Spans}
    /\ ret = NotReturned
    /\ NoInputs
    /\ BuildIdle
    /\ DecompIdle

CallBkCrc ==
    /\ call.fn = "bk_crc"
    /\ ret = NotReturned
    /\ ret' = bk_crc_span(overflow_checks, call.blocks, call.bytes)
    /\ UNCHANGED <<inputVars, call>>
    /\ UNCHANGED <<buildVars, decompVars>>

(***************************************************************************)
(* C1.  The pair the claim describes, written without the fold: the sum    *)
(* after k bytes is the sum of the first k bytes modulo 2^32, and the      *)
(* second word is 0xFFFFFFFF xor-ed with every byte shifted by (that sum   *)
(* & 0x17).                                                                *)
(***************************************************************************)
RECURSIVE C1_SumTo(_, _, _)
C1_SumTo(blocks, bytes, k) ==
    IF k = 0 THEN wrapping_mul(blocks, FF_BLOCK_SUM)
    ELSE wrapping_add(C1_SumTo(blocks, bytes, k - 1), as_u32(bytes[k]))

RECURSIVE C1_XorTo(_, _, _)
C1_XorTo(blocks, bytes, k) ==
    IF k = 0 THEN ONES32
    ELSE BitXor(C1_XorTo(blocks, bytes, k - 1),
                Shl(as_u32(bytes[k]), AndMask17(C1_SumTo(blocks, bytes, k))))

C1_Pair(blocks, bytes) ==
    <<C1_SumTo(blocks, bytes, Len(bytes)), C1_XorTo(blocks, bytes, Len(bytes))>>

\* C1: for every byte span bk_crc returns the pair obtained from (0, 0xFFFFFFFF)
\* by a' = (a + b) mod 2^32, bAcc' = bAcc XOR (b << (a' & 0x17)) per byte; the
\* empty span gives exactly (0, 0xFFFFFFFF).
C1_ReturnsWrappingPair ==
    (call.fn = "bk_crc" /\ ret # NotReturned) =>
        /\ ret = Ok(C1_Pair(call.blocks, call.bytes))
        /\ (call.blocks = ZERO32 /\ call.bytes = <<>>) => ret = Ok(<<ZERO32, ONES32>>)

\* what holds of the code: the same, for builds without overflow checks, and
\* with them as long as the sum of the bytes stays below 2^32
C1_PairUnlessAddPanics ==
    (call.fn = "bk_crc" /\ ret # NotReturned) =>
        /\ ret \in {Ok(C1_Pair(call.blocks, call.bytes)), Panic}
        /\ ret = Panic => (overflow_checks /\ call.blocks # ZERO32)

SpecCrc == InitCrc /\ [][CallBkCrc]_vars

(***************************************************************************)
(* Specification SpecCic: cic::calculate_crc called on one buffer of       *)
(* CRC_START + CrcSectionLen bytes: a ROM header, a boot code, a section.  *)
(***************************************************************************)
\* the last four bytes that give a boot code of BC_SIZE - 4 zero bytes and
\* these four the CRC-32 of each boot chip ("unknown": of none)
BootSuffix(kind) ==
    CASE kind = "Cic6101" -> <<226, 102, 86, 183>>
      [] kind = "Cic6102" -> <<137, 38, 121, 251>>
      [] kind = "Cic6103" -> <<135, 94, 146, 63>>
      [] kind = "Cic6105" -> <<143, 230, 94, 33>>
      [] kind = "Cic6106" -> <<237, 147, 220, 185>>
      [] OTHER -> <<0, 0, 0, 0>>
BootKinds == {"Cic6101", "Cic6102", "Cic6103", "Cic6105", "Cic6106", "unknown"}

RomHeader == [i \in 1 .. HEADER_SIZE |-> (37 * i) % 256]
BootCode(kind) == [i \in 1 .. BC_SIZE - 4 |-> 0] \o BootSuffix(kind)

\* section contents: byte i is (a*i + b) mod 256 for a pattern <<a, b>>; the
\* pattern <<0, 0, 1>> is zero bytes and four last bytes that give a section of
\* 256 bytes the CRC-32 of Cic6102
SectionPatterns == {<<0, 0>>, <<1, 0>>, <<85, 128>>, <<64, 31>>, <<0, 0, 1>>}
Section(p) ==
    IF Len(p) = 3
    THEN [i \in 1 .. CrcSectionLen - 4 |-> 0] \o <<33, 16, 94, 240>>
    ELSE [i \in 1 .. CrcSectionLen |-> (p[1] * (i - 1) + p[2]) % 256]

CicRom(kind, p) == RomHeader \o BootCode(kind) \o Section(p)

InitCic ==
    /\ overflow_checks \in BOOLEAN
    /\ call \in {[fn |-> "calculate_crc", rom |-> CicRom(k, p)] :
                    k \in BootKinds, p \in SectionPatterns}
    /\ ret = NotReturned
    /\ NoInputs
    /\ BuildIdle
    /\ DecompIdle

CallCalculateCrc ==
    /\ call.fn = "calculate_crc"
    /\ ret = NotReturned
    /\ ret' = calculate_crc(overflow_checks, call.rom)
    /\ UNCHANGED <<inputVars, call>>
    /\ UNCHANGED <<buildVars, decompVars>>

SpecCic == InitCic /\ [][CallCalculateCrc]_vars

IsSome(r) == IsOk(r) /\ r.val[1] = "Some"
IsNone(r) == r = Ok(<<"None", <<>>>>)

(***************************************************************************)
(* C6.  The reflected CRC-32 written bit by bit, without the table:        *)
(* polynomial 0xEDB88320, initial value 0xFFFFFFFF, final complement.      *)
(***************************************************************************)
RECURSIVE C6_Bits(_, _)
C6_Bits(crc, n) ==
    IF n = 0 THEN crc
    ELSE C6_Bits(IF Lo(crc) % 2 = 1 THEN BitXor(Shr(crc, 1), W(\hEDB8, \h8320))
                                    ELSE Shr(crc, 1), n - 1)
C6_Byte(crc, byte) == C6_Bits(BitXor(crc, W(0, byte)), 8)
C6_Crc32(data) == BitNot(FoldLeft(C6_Byte, ONES32, data, 1, Len(data)))
C6_KnownCrcs ==
    {W(\h6170, \hA4A1), W(\h90BB, \h6CB5), W(\h0B05, \h0EE0), W(\h98BC, \h2C86), W(\hACC8, \h580A)}

C6_Returned == call.fn = "calculate_crc" /\ ret # NotReturned

\* C6 as stated: a pair is returned only if the CRC-32 of the 1 MiB window
\* rom[0x1000 .. 0x101000] is one of the five constants, and None is returned
\* whenever it is none of them.
C6_IdentifiedByCrcSection ==
    C6_Returned =>
        LET known == C6_Crc32(SubSeq(call.rom, CRC_START + 1, CRC_START + CrcSectionLen))
                        \in C6_KnownCrcs
        IN /\ IsSome(ret) => known
           /\ ~known => IsNone(ret)

\* C6 amended: the same with the CRC-32 taken over the boot code, the 0xFC0
\* bytes rom[0x40 .. 0x1000].
C6_IdentifiedByBootCode ==
    C6_Returned =>
        LET known == C6_Crc32(SubSeq(call.rom, 64 + 1, 4096)) \in C6_KnownCrcs
        IN /\ IsSome(ret) => known
           /\ ~known => IsNone(ret)

\* a buffer whose boot code has none of the five CRC-32 values, while its CRC
\* section has one of them, was refused
C6_UnknownBootCodeRefused ==
    /\ C6_Returned
    /\ IsNone(ret)
    /\ call.rom = CicRom("unknown", <<0, 0, 1>>)

(***************************************************************************)
(* C7.  The computation the claim describes, every operation modulo 2^32.  *)
(***************************************************************************)
C7_Rotl(d, n) ==
    IF n = 0 THEN d ELSE BitOr(Shl(d, n), Shr(d, 32 - n))

C7_Step(kind, section, t, i) ==
    LET d == from_be_bytes(SubSeq(section, 4 * i + 1, 4 * i + 4))
        carry == AddOverflows(t[6], d)
        t6 == wrapping_add(t[6], d)
        t4 == IF carry THEN wrapping_add(t[4], W(0, 1)) ELSE t[4]
        t3 == BitXor(t[3], d)
        r == C7_Rotl(d, Lo(d) % 32)
        t5 == wrapping_add(t[5], r)
        t2 == BitXor(t[2], IF Less(d, t[2]) THEN r ELSE BitXor(t6, d))
        off == (4 * i + 1808) % 256
        x == IF kind = "Cic6105" THEN from_be_bytes(SubSeq(section, off + 1, off + 4)) ELSE t5
    IN <<wrapping_add(t[1], BitXor(d, x)), t2, t3, t4, t5, t6>>

C7_Pair(kind, section) ==
    LET s == seed(kind)
        Step(t, i) == C7_Step(kind, section, t, i)
        n == Len(section) \div 4
        t == FoldLeft(Step, <<s, s, s, s, s, s>>, [k \in 1 .. n |-> k - 1], 1, n)
    IN CASE kind = "Cic6106" ->
              <<wrapping_add(wrapping_mul(t[6], t[4]), t[3]),
                wrapping_add(wrapping_mul(t[5], t[2]), t[1])>>
         [] kind = "Cic6103" ->
              <<wrapping_add(BitXor(t[6], t[4]), t[3]), wrapping_add(BitXor(t[5], t[2]), t[1])>>
         [] OTHER -> <<BitXor(BitXor(t[6], t[4]), t[3]), BitXor(BitXor(t[5], t[2]), t[1])>>

C7_Kind == identify(call.rom).val
C7_Section == SubSeq(call.rom, CRC_START + 1, CRC_START + CrcSectionLen)

\* C7: for each of the five variants and every window, calculate_crc equals the
\* reference computation in which every operation wraps modulo 2^32 and none
\* traps, the final multiplications and additions included.
C7_EqualsWrappingReference ==
    (C6_Returned /\ C7_Kind # "None") =>
        ret = Ok(<<"Some", C7_Pair(C7_Kind, C7_Section)>>)

\* what holds of the code: it equals the reference unless the final + or * of
\* Cic6103 / Cic6106 overflows in a build with overflow checks, where it panics
C7_EqualsReferenceOrFinalPanics ==
    (C6_Returned /\ C7_Kind # "None") =>
        \/ ret = Ok(<<"Some", C7_Pair(C7_Kind, C7_Section)>>)
        \/ ret = Panic /\ overflow_checks /\ C7_Kind \in {"Cic6103", "Cic6106"}


(***************************************************************************)
(* The build: inputs, Init, Next                                           *)
(***************************************************************************)
\* sizes of the input image of the model: the boot segment, the bytes between
\* the checksum header and the first overlay, an overlay's code and data
BootLen == 8
GapLen == 20
CodeLen == 3
DataLen == 16

MakeFn(pairs) == [n \in {p[1] : p \in pairs} |-> (CHOOSE p \in pairs : p[1] = n)[2]]
Min(a, b) == IF a < b THEN a ELSE b

\* where the linker put things: file offsets and virtual addresses
BootRomStart == CRC_START
BootRomEnd == BootRomStart + BootLen
OverlayRomStart(k) == BootRomEnd + ROM_CRC_LEN + GapLen + (k - 1) * (CodeLen + DataLen)
InputLen == OverlayRomStart(Len(OVERLAY_NAMES) + 1)
TextStart(k) == 1024 * k
DataStart(name, k) == IF name = "core1" THEN TextStart(k) + CodeLen ELSE TextStart(k) + 512

RangeSymbols(name, k, rom_start, rom_end) ==
    LET n == RangeSymbolNames(name)
    IN {<<n.text_start, TextStart(k)>>, <<n.text_end, TextStart(k) + CodeLen>>,
        <<n.data_start, DataStart(name, k)>>, <<n.data_end, DataStart(name, k) + DataLen>>,
        <<n.bss_start, DataStart(name, k) + DataLen>>, <<n.bss_end, DataStart(name, k) + DataLen + 16>>,
        <<n.rom_start, rom_start>>, <<n.rom_end, rom_end>>}

SlotSymbols(sm_slot3) ==
    UNION {LET k == IndexOf(OVERLAY_NAMES, ov)
               s == PatchSymbols(ov)
           IN {<<s[1], DataStart(ov, k)>>, <<s[2], DataStart(ov, k) + 4>>,
               <<s[3], DataStart(ov, k) + (IF ov = "SM" THEN sm_slot3 ELSE 8)>>}
           : ov \in {SELF_CHECKING[i] : i \in DOMAIN SELF_CHECKING}}
    \cup {<<"D_803727F4", DataStart("core2", 2) + 4>>,
          <<"D_80276574", DataStart("core1", 1) + 4>>,
          <<"D_80275650", DataStart("core1", 1)>>}

AllSymbols(crc_shift, sm_slot3) ==
    RangeSymbols("boot_bk_boot", 20, BootRomStart, BootRomEnd)
    \cup UNION {RangeSymbols(OVERLAY_NAMES[k], k, OverlayRomStart(k), OverlayRomStart(k + 1))
                : k \in DOMAIN OVERLAY_NAMES}
    \cup SlotSymbols(sm_slot3)
    \cup {<<"crc_ROM_START", BootRomEnd + crc_shift>>}

SymbolTable(crc_shift, sm_slot3, missing) ==
    MakeFn({p \in AllSymbols(crc_shift, sm_slot3) : p[1] \notin missing})

\* the input image: ROM header, boot code of the given chip, then bytes that
\* depend on the seed
InputRom(kind, content) ==
    RomHeader \o BootCode(kind)
      \o [i \in 1 .. InputLen - CRC_START |-> (content * i * i + 3 * i + content) % 256]

\* what the output path holds before the run
ExistingFile(len) == [i \in 1 .. len |-> 170]

Scenario(kind, checks, listing, content, crc_shift, sm_slot3, missing, existing) ==
    [kind |-> kind, checks |-> checks, listing |-> listing, content |-> content,
     crc_shift |-> crc_shift, sm_slot3 |-> sm_slot3, missing |-> missing, existing |-> existing]

Scenarios ==
    \* every chip, both build profiles, two contents
    {Scenario(k, c, FALSE, s, 0, 8, {}, 0) : k \in BootKinds, c \in BOOLEAN, s \in {0, 7}}
    \* more contents
    \cup {Scenario("Cic6102", FALSE, l, s, 0, 8, {}, 0) : l \in BOOLEAN, s \in {1, 85, 255}}
    \* a symbol is absent
    \cup {Scenario("Cic6102", FALSE, l, 7, 0, 8, {m}, 0) :
            l \in BOOLEAN,
            m \in {"GV_TEXT_END", "boot_bk_boot_ROM_END", "core1_DATA_START_OFFSET",
                   "crc_ROM_START", "D_8038AAE8", "D_8038C754", "D_803727F4", "D_80275650"}}
    \* the checksum header is not right after the boot segment; the output path holds a file
    \cup {Scenario("Cic6102", FALSE, FALSE, 7, d, 8, {}, e) :
            d \in {0, 16, 0 - 4, GapLen + 4}, e \in {0, 64, ROM_SIZE + 8}}
    \* the third slot of SM: last place of the span, overlapping the second slot,
    \* across the end of the span, below its start
    \cup {Scenario("Cic6103", c, FALSE, 7, 0, o, {}, 0) :
            c \in BOOLEAN, o \in {DataLen - 4, 6, DataLen - 2, DataLen, 0 - 2}}

Init ==
    /\ \E sc \in Scenarios :
         /\ overflow_checks = sc.checks
         /\ symbol_out = sc.listing
         /\ symbols = SymbolTable(sc.crc_shift, sc.sm_slot3, sc.missing)
         /\ uncompressed_rom = InputRom(sc.kind, sc.content)
         /\ out_file = ExistingFile(sc.existing)
    /\ BuildUnset
    /\ pc = "locate"
    /\ call = Unset
    /\ ret = NotReturned
    /\ DecompIdle

Next ==
    \/ LocateSegments
    \/ SplitSpans
    \/ \E i \in DOMAIN SELF_CHECKING : PatchSelfChecking(SELF_CHECKING[i])
    \/ PatchCore2
    \/ PatchCore1
    \/ Compress
    \/ EmitSymbols
    \/ BuildHeader
    \/ OpenOut
    \/ WritePrefix
    \/ WriteBoot
    \/ WriteHeader
    \/ WriteGap
    \/ WriteRzips
    \/ WriteFill
    \/ CicPatch

Spec == Init /\ [][Next]_vars


(***************************************************************************)
(* replace_symbol on its own                                               *)
(***************************************************************************)
MaxPatchBufLen == 6
PatchBase == CRC_START
PatchBuffers ==
    {[i \in 1 .. n |-> (c * i) % 256] : n \in 0 .. MaxPatchBufLen, c \in {16, 255}}
PatchAddresses == (PatchBase - 5) .. (PatchBase + MaxPatchBufLen + 2)
PatchValues == {<<1, 2, 3, 4>>, <<0, 0, 0, 0>>}

InitPatch ==
    /\ overflow_checks \in BOOLEAN
    /\ symbol_out = FALSE
    /\ \E a \in PatchAddresses : symbols = MakeFn({<<"D_PATCH", a>>})
    /\ uncompressed_rom = <<>>
    /\ call \in {[fn |-> "replace_symbol", bytes |-> b, rom_offset |-> PatchBase,
                  symbol_name |-> "D_PATCH", value |-> v] :
                    b \in PatchBuffers, v \in PatchValues}
    /\ ret = NotReturned
    /\ BuildIdle
    /\ DecompIdle

CallReplaceSymbol ==
    /\ call.fn = "replace_symbol"
    /\ ret = NotReturned
    /\ ret' = replace_symbol(overflow_checks, symbols, call.bytes, call.rom_offset,
                             call.symbol_name, call.value)
    /\ UNCHANGED <<inputVars, call>>
    /\ UNCHANGED <<buildVars, decompVars>>

SpecPatch == InitPatch /\ [][CallReplaceSymbol]_vars

C3_Offset == symbols[call.symbol_name] - call.rom_offset
C3_InRange == 0 <= C3_Offset /\ C3_Offset + 4 <= Len(call.bytes)

(***************************************************************************)
(* C3.  replace_symbol with offset = address - base: when 0 <= offset and  *)
(* offset + 4 <= length it keeps the length of the buffer, sets            *)
(* buffer[offset .. offset+4) to the value and leaves every other byte     *)
(* as it was; otherwise it panics, so no buffer with a truncated or        *)
(* shifted value is left to the build.                                     *)
(***************************************************************************)
C3_PatchesInPlaceOrPanics ==
    (call.fn = "replace_symbol" /\ ret # NotReturned) =>
        IF C3_InRange
        THEN /\ IsOk(ret)
             /\ ~ret.val.warned
             /\ Len(ret.val.bytes) = Len(call.bytes)
             /\ \A i \in 1 .. Len(call.bytes) :
                  ret.val.bytes[i] = IF C3_Offset < i /\ i <= C3_Offset + 4
                                     THEN call.value[i - C3_Offset]
                                     ELSE call.bytes[i]
        ELSE ret = Panic

\* a patch strictly inside a buffer has been made
C3_PatchedInside ==
    /\ call.fn = "replace_symbol"
    /\ IsOk(ret)
    /\ C3_Offset > 0
    /\ C3_Offset + 4 < Len(call.bytes)
    /\ ret.val.bytes # call.bytes

(***************************************************************************)
(* The build: what the claims speak of                                     *)
(***************************************************************************)
SelfCheckingOverlays == {SELF_CHECKING[i] : i \in DOMAIN SELF_CHECKING}
OriginalIndex(ov) == IndexOf(OVERLAY_NAMES, ov)
ImageDone == pc = "done" /\ ~symbol_out

\* the replace_symbol calls that wrote the third slot of ov
C2_SlotWrites(ov) ==
    {i \in DOMAIN patch_log : patch_log[i].symbol = PatchSymbols(ov)[3] /\ patch_log[i].written}
C2_SlotPatched(ov) == Cardinality(C2_SlotWrites(ov)) = 2
C2_WrittenWord(ov) ==
    from_be_bytes(patch_log[CHOOSE i \in C2_SlotWrites(ov) :
                              \A j \in C2_SlotWrites(ov) : j <= i].value)
C2_Final(ov) == uncomp_data_bytes[OriginalIndex(ov)]
C2_SlotOffset(ov) == symbols[PatchSymbols(ov)[3]] - overlay_offsets[OriginalIndex(ov)].data[1]
C2_Zeroed(ov) ==
    [i \in 1 .. Len(C2_Final(ov)) |->
        IF C2_SlotOffset(ov) < i /\ i <= C2_SlotOffset(ov) + 4 THEN 0 ELSE C2_Final(ov)[i]]
C2_ByteSum(w) == W(0, (Hi(w) \div 256) + (Hi(w) % 256) + (Lo(w) \div 256) + (Lo(w) % 256))

\* C2 as the spec words it: bk_crc over the final data span gives back the
\* word in the third slot
C2_RecomputedIsWrittenWord ==
    \A ov \in SelfCheckingOverlays :
        C2_SlotPatched(ov) =>
            bk_crc(overflow_checks, C2_Final(ov)).val[1] = C2_WrittenWord(ov)

(***************************************************************************)
(* C2.  For every self-checking overlay whose third slot has been patched: *)
(* the slot of the final data span holds the written word; the written     *)
(* word is the first word of bk_crc over the final data span with the      *)
(* third slot zeroed again; and bk_crc over the final span as it stands    *)
(* has as first word the written word plus the sum of its own four bytes.  *)
(***************************************************************************)
C2_WrittenWordIsChecksumOfZeroedSpan ==
    \A ov \in SelfCheckingOverlays :
        C2_SlotPatched(ov) =>
            /\ SubSeq(C2_Final(ov), C2_SlotOffset(ov) + 1, C2_SlotOffset(ov) + 4)
                 = to_be_bytes(C2_WrittenWord(ov))
            /\ bk_crc(overflow_checks, C2_Zeroed(ov)).val[1] = C2_WrittenWord(ov)
            /\ bk_crc(overflow_checks, C2_Final(ov)).val[1]
                 = wrapping_add(C2_WrittenWord(ov), C2_ByteSum(C2_WrittenWord(ov)))

\* a finished image in which every self-checking overlay got its word, none of
\* them a word that bk_crc over the final span gives back
C2_AllSlotsPatched ==
    /\ ImageDone
    /\ \A ov \in SelfCheckingOverlays :
         /\ C2_SlotPatched(ov)
         /\ C2_WrittenWord(ov) # ZERO32
         /\ bk_crc(overflow_checks, C2_Final(ov)).val[1] # C2_WrittenWord(ov)


\* the symbols the pipeline looks up
C4_RangeNames == {"boot_bk_boot"} \cup {OVERLAY_NAMES[k] : k \in DOMAIN OVERLAY_NAMES}
C4_RangeSymbols ==
    UNION {{RangeSymbolNames(n)[f] : f \in DOMAIN RangeSymbolNames(n)} : n \in C4_RangeNames}
C4_HeaderSymbols == IF symbol_out THEN {} ELSE {"crc_ROM_START"}
C4_PatchTargets ==
    UNION {{PatchSymbols(ov)[j] : j \in 1 .. 3} : ov \in SelfCheckingOverlays}
    \cup {"D_803727F4", "D_80276574", "D_80275650"}
C4_Missing(names) == \E s \in names : s \notin DOMAIN symbols

\* the overlay whose data span a patch target is written into
C4_TargetOverlay(s) ==
    IF s = "D_803727F4" THEN "core2"
    ELSE IF s \in {"D_80276574", "D_80275650"} THEN "core1"
    ELSE CHOOSE ov \in SelfCheckingOverlays : \E j \in 1 .. 3 : PatchSymbols(ov)[j] = s

\* inputs on which nothing but an absent patch target is out of the ordinary:
\* every segment lies in the input image, every patch target that is present
\* lies in its data span, the header and the gap fit before the first overlay,
\* the image fits the fixed size, the boot code is one of the five and the
\* build is not one in which the final combination of its CRC can overflow
C4_Segment(n) == from_elf_symbols(n, symbols).val
C4_SegmentsFit ==
    \A n \in C4_RangeNames :
        /\ C4_Segment(n).uncompressed_rom[1] <= C4_Segment(n).uncompressed_rom[2]
        /\ C4_Segment(n).uncompressed_rom[2] <= Len(uncompressed_rom)
        /\ RangeLen(C4_Segment(n).text) <= RangeLen(C4_Segment(n).uncompressed_rom)
C4_TargetsFit ==
    \A s \in C4_PatchTargets \cap DOMAIN symbols :
        LET seg == C4_Segment(C4_TargetOverlay(s))
            offset == symbols[s] - seg.data[1]
        IN /\ 0 <= offset
           /\ offset + 4 <= RangeLen(seg.uncompressed_rom) - RangeLen(seg.text)
C4_BootChipFits ==
    LET chip == identify(uncompressed_rom)
    IN /\ IsOk(chip)
       /\ chip.val # "None"
       /\ overflow_checks => chip.val \notin {"Cic6103", "Cic6106"}
C4_ImageFits ==
    \/ symbol_out
    \/ /\ symbols["crc_ROM_START"] + 32 <= C4_Segment("core1").uncompressed_rom[1]
       /\ C4_Segment("boot_bk_boot").uncompressed_rom[2] >= 4096
       /\ i_offset <= ROM_SIZE
       /\ ROM_SIZE + C4_Segment("boot_bk_boot").uncompressed_rom[2] - symbols["crc_ROM_START"]
            >= CRC_READ_LEN
       /\ C4_BootChipFits
C4_OtherwiseWellFormed ==
    /\ ~C4_Missing(C4_RangeSymbols \cup C4_HeaderSymbols)
    /\ C4_SegmentsFit
    /\ C4_TargetsFit
    /\ C4_ImageFits

\* C4 as the spec words it: with any needed symbol absent the build never
\* reaches the state where the image or the listing is complete
C4_MissingSymbolNeverCompletes ==
    C4_Missing(C4_RangeSymbols \cup C4_HeaderSymbols \cup C4_PatchTargets) => pc # "done"

(***************************************************************************)
(* C4.  An absent segment range symbol, and in the image-building mode an  *)
(* absent crc_ROM_START, abort the build before anything is emitted.  An   *)
(* absent patch target does not: replace_symbol prints a warning, writes   *)
(* nothing, and the build goes on; on inputs that are otherwise well       *)
(* formed it never aborts.                                                 *)
(***************************************************************************)
C4_OnlyRangeAndHeaderSymbolsAbort ==
    /\ C4_Missing(C4_RangeSymbols \cup C4_HeaderSymbols) =>
         /\ pc # "done"
         /\ write_log = <<>>
         /\ symbol_file = <<>>
    /\ \A i \in DOMAIN patch_log :
         patch_log[i].written <=> patch_log[i].symbol \in DOMAIN symbols
    /\ Len(stdout) = Cardinality({i \in DOMAIN patch_log : ~patch_log[i].written})
    /\ \A i \in DOMAIN stdout : stdout[i] \in C4_PatchTargets \ DOMAIN symbols
    /\ pc = "panicked" => ~C4_OtherwiseWellFormed

\* an image has been completed although a patch target was absent
C4_CompletedWithoutPatchTarget ==
    /\ ImageDone
    /\ C4_Missing(C4_PatchTargets)
    /\ stdout # <<>>
    /\ \E i \in DOMAIN patch_log : ~patch_log[i].written

(***************************************************************************)
(* C5.  In every run of the image-building mode that aborts, the output    *)
(* file holds no bytes written by this run.                                *)
(***************************************************************************)
C5_AbortLeavesNothingWritten ==
    (pc = "panicked" /\ ~symbol_out) => write_log = <<>>

\* what does hold: an abort before the file is opened leaves nothing, and an
\* abort of the boot CRC step leaves the whole assembled image in the file
C5_AbortLeavesWhatWasWritten ==
    (pc = "panicked" /\ ~symbol_out) =>
        \/ write_log = <<>>
        \/ /\ write_log[Len(write_log)].stage \in {"write_boot", "write_header", "write_fill"}
           /\ Len(out_file) >= out_pos
           /\ out_pos = write_log[Len(write_log)].at + write_log[Len(write_log)].len

(***************************************************************************)
(* C8.  Whenever the image-building mode runs to completion the output is  *)
(* exactly the fixed image size long (0x1000000 in the program).           *)
(***************************************************************************)
C8_OutputIsRomSize == ImageDone => Len(out_file) = ROM_SIZE

\* what does hold: the bytes written, and the length of the file
C8_BytesWritten ==
    ImageDone =>
        LET fill == write_log[Len(write_log) - 1]
            written == ROM_SIZE + bk_boot_info.uncompressed_rom[2] - crc_rom_start
        IN /\ fill.stage = "write_fill"
           /\ fill.at + fill.len = written
           /\ Len(out_file) >= written

(***************************************************************************)
(* C9.  In the finished image every byte at an offset below the checksum   *)
(* header and below the end of the boot segment, other than the eight      *)
(* bytes at 0x10 .. 0x18 that the boot CRC patch overwrites, equals the    *)
(* byte of the input image at that offset.                                 *)
(***************************************************************************)
C9_PrefixEqualsInputExceptBootCrc ==
    ImageDone =>
        \A i \in 1 .. Min(crc_rom_start, bk_boot_info.uncompressed_rom[2]) :
            i - 1 \notin 16 .. 23 => out_file[i] = uncompressed_rom[i]

\* C9 as the spec words it: every byte below crc_ROM_START equals the input
C9_PrefixEqualsInput ==
    ImageDone => \A i \in 1 .. crc_rom_start : out_file[i] = uncompressed_rom[i]

\* a finished image whose bytes at 0x10 .. 0x18 are not those of the input
C9_BootCrcOverwritesPrefix ==
    /\ ImageDone
    /\ crc_rom_start = bk_boot_info.uncompressed_rom[2]
    /\ \E i \in 17 .. 24 : out_file[i] # uncompressed_rom[i]

\* the writes after the fill
C10_PostAssemblyWrites ==
    {i \in DOMAIN write_log : \E j \in 1 .. i - 1 : write_log[j].stage = "write_fill"}

(***************************************************************************)
(* C10.  After the whole image has been written there is exactly one more  *)
(* write: the two words calculate_crc gives for the first 0x101000 bytes   *)
(* of the image, big-endian, at file offsets 0x10 .. 0x18, in the ROM      *)
(* header at the start of the file.                                        *)
(***************************************************************************)
C10_BootCrcWrittenLastInRomHeader ==
    /\ pc \notin {"done", "panicked"} => C10_PostAssemblyWrites = {}
    /\ ImageDone =>
         /\ C10_PostAssemblyWrites = {Len(write_log)}
         /\ write_log[Len(write_log)] = [stage |-> "cic", at |-> 16, len |-> 8]
         /\ LET crc == calculate_crc(overflow_checks, SubSeq(out_file, 1, CRC_READ_LEN))
            IN /\ IsOk(crc)
               /\ crc.val[1] = "Some"
               /\ SubSeq(out_file, 17, 24)
                    = to_be_bytes(crc.val[2][1]) \o to_be_bytes(crc.val[2][2])

\* C10 as the spec words it: the slot lies inside the 32-byte checksum header
C10_SlotInsideChecksumHeader ==
    ImageDone =>
        /\ crc_rom_start <= write_log[Len(write_log)].at
        /\ write_log[Len(write_log)].at + write_log[Len(write_log)].len
             <= crc_rom_start + ROM_CRC_LEN

\* the boot CRC has been patched into an image whose checksum header is elsewhere
C10_BootCrcPatched ==
    /\ ImageDone
    /\ write_log[Len(write_log)].stage = "cic"
    /\ write_log[Len(write_log) - 1].stage = "write_fill"
    /\ crc_rom_start >= 24

(***************************************************************************)
(* The cross-segment patches (lines 258-269)                               *)
(***************************************************************************)
\* the data span of overlay idx as SplitSpans cut it out of the input
OriginalData(idx) ==
    SubSeq(uncompressed_rom,
           overlay_offsets[idx].uncompressed_rom[1] + RangeLen(overlay_offsets[idx].text) + 1,
           overlay_offsets[idx].uncompressed_rom[2])
\* the replace_symbol calls made so far for a symbol
PatchesOf(symbol_name) == {i \in DOMAIN patch_log : patch_log[i].symbol = symbol_name}
\* the four bytes of overlay idx's data span at a symbol
PatchedWord(idx, symbol_name) ==
    SubSeq(uncomp_data_bytes[idx],
           symbols[symbol_name] - overlay_offsets[idx].data[1] + 1,
           symbols[symbol_name] - overlay_offsets[idx].data[1] + 4)
Core2Done == core2_data_crc # Unset

\* C11 as the spec words it: the word of core2's code checksum is written into
\* core1's data span, and core2's data checksum is taken after that patch
C11_Core2WordWrittenIntoCore1 ==
    Core2Done =>
        /\ \A i \in PatchesOf("D_803727F4") :
             patch_log[i].overlay = OriginalIndex("core1")
        /\ core2_data_crc = bk_crc(overflow_checks, uncomp_data_bytes[OriginalIndex("core2")]).val

(***************************************************************************)
(* C11.  In step 2 the second word of core2's code checksum is patched     *)
(* into core2's own data span, at D_803727F4; the step leaves core1's data *)
(* span as it was cut from the input; and core2's data checksum is the     *)
(* bk_crc of core2's data span with that patch applied.                    *)
(***************************************************************************)
C11_Core2WordWrittenIntoCore2 ==
    Core2Done =>
        /\ Cardinality(PatchesOf("D_803727F4")) = 1
        /\ \A i \in PatchesOf("D_803727F4") :
             /\ patch_log[i].overlay = OriginalIndex("core2")
             /\ patch_log[i].value = to_be_bytes(code_crcs[OriginalIndex("core2")][2])
             /\ patch_log[i].written =>
                  PatchedWord(OriginalIndex("core2"), "D_803727F4") = patch_log[i].value
        /\ pc = "core1" =>
             uncomp_data_bytes[OriginalIndex("core1")] = OriginalData(OriginalIndex("core1"))
        /\ core2_data_crc = bk_crc(overflow_checks, uncomp_data_bytes[OriginalIndex("core2")]).val

\* the core2 patch was written and changed core2's data span
C11_Core2DataPatched ==
    /\ Core2Done
    /\ \E i \in PatchesOf("D_803727F4") : patch_log[i].written
    /\ uncomp_data_bytes[OriginalIndex("core2")] # OriginalData(OriginalIndex("core2"))
    /\ core2_data_crc # bk_crc(overflow_checks, OriginalData(OriginalIndex("core2"))).val

(***************************************************************************)
(* Checksum dependency order (lines 189-278)                               *)
(***************************************************************************)
\* the data checksums that are consumed elsewhere, by overlay
C12_Consumed == {"SM", "core2", "core1"}
C12_Checksum(ov) ==
    CASE ov = "SM" -> sm_data_crc_complete
      [] ov = "core2" -> core2_data_crc
      [] ov = "core1" -> core1_data_crc
\* the block of an overlay as it is compressed from the spans the build holds
C12_Block(k) ==
    resize(zip(uncomp_code_bytes[k]) \o zip(uncomp_data_bytes[k]),
           pad16_len(Len(zip(uncomp_code_bytes[k]) \o zip(uncomp_data_bytes[k]))), 0)
C12_Compressed == rzip_bytes # Unset
\* the words of the checksums where they are consumed
C12_Core1Patches ==
    \A i \in DOMAIN patch_log :
        /\ patch_log[i].symbol = "D_80276574" =>
             /\ patch_log[i].overlay = OriginalIndex("core1")
             /\ patch_log[i].value = to_be_bytes(core2_data_crc[2])
        /\ patch_log[i].symbol = "D_80275650" =>
             /\ patch_log[i].overlay = OriginalIndex("core1")
             /\ patch_log[i].value = to_be_bytes(sm_data_crc_complete[2])
C12_HeaderWords ==
    rom_crc_bytes # Unset =>
        SubSeq(rom_crc_bytes, 17, 24)
          = to_be_bytes(core1_data_crc[1]) \o to_be_bytes(core1_data_crc[2])
\* the compressed blocks as they stand in the finished image
C12_BlocksInImage ==
    ImageDone =>
        \E i \in DOMAIN write_log :
            /\ write_log[i].stage = "write_rzips"
            /\ SubSeq(out_file, write_log[i].at + 1, write_log[i].at + write_log[i].len)
                 = Concat(rzip_bytes, Len(rzip_bytes))

C12_ConsumedAreFinal ==
    /\ \A ov \in C12_Consumed :
         C12_Checksum(ov) # Unset =>
             C12_Checksum(ov)
               = bk_crc(overflow_checks, uncomp_data_bytes[OriginalIndex(ov)]).val
    /\ C12_Core1Patches
    /\ C12_HeaderWords
    /\ C12_Compressed =>
         /\ \A ov \in C12_Consumed : C12_Checksum(ov) # Unset
         /\ \A k \in DOMAIN OVERLAY_NAMES :
              rzip_bytes[IndexOf(overlay_names, OVERLAY_NAMES[k])] = C12_Block(k)
    /\ C12_BlocksInImage

\* a step that patches: nothing is compressed yet, and the data span of an
\* overlay whose consumed checksum is already taken stays as it is
C12_NoLatePatch ==
    (patch_log' # patch_log \/ uncomp_data_bytes' # uncomp_data_bytes) =>
        /\ ~C12_Compressed
        /\ \A ov \in C12_Consumed :
             C12_Checksum(ov) # Unset =>
                 uncomp_data_bytes'[OriginalIndex(ov)] = uncomp_data_bytes[OriginalIndex(ov)]

(***************************************************************************)
(* C12.  Every consumed data checksum (SM's complete one and core2's,      *)
(* patched into core1's data, and core1's, placed in the header) is the    *)
(* bk_crc of the data bytes of its overlay that are compressed into the    *)
(* image: once such a checksum is taken no patch touches that data span,   *)
(* and every overlay is compressed after the last patch of the pipeline.   *)
(***************************************************************************)
C12_ConsumedChecksumsAreOfCompressedData ==
    []C12_ConsumedAreFinal /\ [][C12_NoLatePatch]_vars

\* a completed image in which all three consumed checksums were patched in or
\* placed, over data spans that the patches changed
C12_ChecksumsConsumedInImage ==
    /\ ImageDone
    /\ \E i \in PatchesOf("D_80276574") : patch_log[i].written
    /\ \E i \in PatchesOf("D_80275650") : patch_log[i].written
    /\ \A ov \in C12_Consumed :
         uncomp_data_bytes[OriginalIndex(ov)] # OriginalData(OriginalIndex(ov))

(***************************************************************************)
(* The boot CRC patch and the windows calculate_crc reads                  *)
(* (main.rs 335-342, cic.rs 44-46 and 71-72)                               *)
(***************************************************************************)
\* the writes of the boot CRC patch
C13_CicWrites == {i \in DOMAIN write_log : write_log[i].stage = "cic"}
\* the bytes calculate_crc reads: boot code and CRC window, HEADER_SIZE onwards
C13_Windows(file) == SubSeq(file, HEADER_SIZE + 1, CRC_READ_LEN)
\* the compute-and-patch step of lines 336-342 applied to a file
C13_Repatched(file, crc) ==
    IF IsOk(crc) /\ crc.val[1] = "Some"
    THEN write_all(file, cic_crc_seek, boot_crc_words(crc.val[2]))
    ELSE <<>>

C13_StoredWordsAreFixedPoint ==
    /\ \A i \in C13_CicWrites :
         /\ write_log[i].at = 16 /\ write_log[i].len = 8
         /\ write_log[i].at + write_log[i].len <= HEADER_SIZE
    /\ ImageDone =>
         /\ C13_CicWrites # {}
         /\ calculate_crc(overflow_checks, SubSeq(out_file, 1, CRC_READ_LEN))
              = Ok(<<"Some", <<from_be_bytes(SubSeq(out_file, 17, 20)),
                               from_be_bytes(SubSeq(out_file, 21, 24))>>>>)
         /\ C13_Repatched(out_file, boot_crc_value(overflow_checks, read_crc_bytes(out_file)))
              = out_file

\* the patch step leaves both windows, and every byte outside 0x10 .. 0x18, as they were
C13_PatchLeavesWindows ==
    (pc = "cic" /\ pc' = "done") =>
        /\ C13_Windows(out_file') = C13_Windows(out_file)
        /\ Len(out_file') = Len(out_file)
        /\ \A i \in 1 .. Len(out_file) : i - 1 \notin 16 .. 23 => out_file'[i] = out_file[i]

(***************************************************************************)
(* C13.  The boot CRC patch writes file offsets 0x10 .. 0x18 only, outside *)
(* the boot code 0x40 .. 0x1000 and the CRC window from 0x1000 on that     *)
(* calculate_crc reads; so in every completed image calculate_crc of its   *)
(* first 0x101000 bytes is the pair of big-endian words at 0x10 .. 0x18,   *)
(* and computing and patching once more changes no byte.                   *)
(***************************************************************************)
C13_BootCrcIsFixedPoint ==
    []C13_StoredWordsAreFixedPoint /\ [][C13_PatchLeavesWindows]_vars

\* a completed image whose boot CRC words are not the ones the input carried,
\* for a chip whose checksum reads inside the CRC window a second time
C13_PatchedCic6105Image ==
    /\ ImageDone
    /\ identify(out_file) = Ok("Cic6105")
    /\ SubSeq(out_file, 17, 24) # SubSeq(uncompressed_rom, 17, 24)
    /\ Len(out_file) >= CRC_READ_LEN

(***************************************************************************)
(* The decompressor's file-offset tables (decomp/main.rs 87-138)           *)
(***************************************************************************)
C14_NonDecreasing(t) == \A i \in 1 .. Len(t) - 1 : t[i] <= t[i + 1]
C14_InsideRom(t) == \A i \in DOMAIN t : t[i] <= COMPRESSED_ROM_LEN
C14_HasTable == file_offsets # Unset

(***************************************************************************)
(* C14.  For every version with a file-offset table (USA and PAL) the      *)
(* table is non-decreasing and every entry is at most 0x1000000, so every  *)
(* window is a slice range of the 16 MiB image and slicing never panics.   *)
(***************************************************************************)
C14_TableIsSliceable ==
    C14_HasTable =>
        /\ game_id \in {"USA", "PAL"}
        /\ C14_NonDecreasing(file_offsets)
        /\ C14_InsideRom(file_offsets)
        /\ decomp_pc # "panicked"

\* what holds instead: the PAL table is as claimed and all its 32 windows are
\* sliced; the USA table has 0xF9CAE0 + 0x64B50 = 0x1001630 as its fourth
\* entry, beyond the image and above the fifth entry, and the third window
\* panics
C14_OnlyPalTableIsSliceable ==
    C14_HasTable =>
        /\ game_id \in {"USA", "PAL"}
        /\ compressed_rom.len = COMPRESSED_ROM_LEN
        /\ game_id = "PAL" =>
             /\ C14_NonDecreasing(file_offsets)
             /\ C14_InsideRom(file_offsets)
             /\ decomp_pc # "panicked"
        /\ game_id = "USA" =>
             /\ file_offsets[4] = 16782896
             /\ file_offsets[4] > COMPRESSED_ROM_LEN
             /\ file_offsets[4] > file_offsets[5]
             /\ \A i \in DOMAIN file_offsets :
                  i # 4 => file_offsets[i] <= COMPRESSED_ROM_LEN
             /\ \A i \in 1 .. Len(file_offsets) - 1 :
                  i # 4 => file_offsets[i] <= file_offsets[i + 1]
             /\ Len(uncompressed_overlays) <= 2
             /\ decomp_pc # "done"
             /\ decomp_pc = "panicked" => Len(uncompressed_overlays) = 2

\* the USA image: the slice of the third window has panicked
C14_UsaSlicePanicked ==
    /\ C14_HasTable
    /\ game_id = "USA"
    /\ decomp_pc = "panicked"
    /\ Len(uncompressed_overlays) = 2

=============================================================================
